---- MODULE Spec2Model ----
(***************************************************************************)
(* A model of cavemap_2000.py: the LinePlot survey network (add_shot and   *)
(* process) and the fore/backsight arithmetic they use.                    *)
(*                                                                         *)
(* Representation.                                                         *)
(*  - A shot is a Python dict.  Dicts are shared by reference between      *)
(*    self.shots, unfinished and done, so the dicts live in `heap` (a      *)
(*    sequence indexed by object identity) and the three lists hold        *)
(*    identities.  list.remove and `in` compare dicts by content, which is *)
(*    the comparison of heap records.                                      *)
(*    A dict holds all ten keys csv_to_shots gives it, and position and    *)
(*    flat_position once they are set: list.remove compares them all.      *)
(*    Every add_shot call is given a dict object of its own.               *)
(*  - A float x is held as the integer 2*x (angles in half degrees,        *)
(*    lengths in half units), so that the division by 2.0 of the averaging *)
(*    is exact on integer input.                                           *)
(*  - A parsed field (None, float or (float, float) tuple) is a record     *)
(*    with the flags `none` and `tuple`; a missing dict key (position,     *)
(*    flat_position) is <<>>.                                              *)
(*  - A CSV cell is the sequence of the numbers it holds between its '/':  *)
(*    <<>> is the empty cell, <<88, 272>> the cell 88/272.                 *)
(*  - sin and cos are exact on multiples of 90 degrees and undefined       *)
(*    elsewhere; the networks of Spec, BuildSpec, DeepSpec, AnySpec and    *)
(*    LoopSpec only hold shots whose reduced angles are such multiples.    *)
(*    Floating point rounding is not modelled.  AngleSpec runs the azimuth *)
(*    arithmetic of add_shot and process on every pair of integer          *)
(*    bearings.                                                            *)
(***************************************************************************)
EXTENDS Integers, Sequences, FiniteSets, TLC

VARIABLES
    heap,          \* the shot dicts, by identity
    shots,         \* self.shots: identities
    shot_names,    \* self.shot_names
    origin_name,   \* self.origin_name
    result,        \* <<operation, outcome>> of the running or last call
    warnings,      \* the WARNING lines printed by the running or last call
    pc,            \* position inside process(): idle, while, for
    unfinished,    \* process local
    done,          \* process local
    looped_twice,  \* process local
    idx,           \* position of the list iterator of `for shot in unfinished`
    scan_start,    \* history: unfinished when the running scan started
    done_start,    \* history: done when the running scan started
    examined,      \* history: identities the running scan has visited
    before,        \* history: heap on entry of the process() call that is running
                   \* or was the last call; <<>> once another call was made
    prior_ok,      \* history: the call before that process() call was a
                   \* process() call that returned
    a_pc,          \* AngleSpec: input, checked (by add_shot), reduced (by process)
    a_value,       \* AngleSpec: a (fore, back) azimuth pair
    a_warning,     \* AngleSpec: what add_shot's tolerance check printed for it
    a_azimuth      \* AngleSpec: what process() replaced it with

vars == <<heap, shots, shot_names, origin_name, result, warnings, pc,
          unfinished, done, looped_twice, idx, scan_start, done_start,
          examined, before, prior_ok, a_pc, a_value, a_warning,
          a_azimuth>>

netvars == <<heap, shots, shot_names, origin_name, result, warnings, pc,
             unfinished, done, looped_twice, idx, scan_start, done_start,
             examined, before, prior_ok>>

anglevars == <<a_pc, a_value, a_warning, a_azimuth>>

----------------------------------------------------------------------------
(* Bounds *)

\* add_shot calls that may succeed in Spec
MaxShots == 3
\* length of the shot lists AnySpec starts from
MaxAny == 3
\* add_shot calls that may succeed in DeepSpec
MaxDeep == 4

----------------------------------------------------------------------------
(* Values *)

Deg(d) == 2 * d

\* None
Absent == [none |-> TRUE, tuple |-> FALSE, v0 |-> 0, v1 |-> 0]

\* the float d
Scalar(d) == [none |-> FALSE, tuple |-> FALSE, v0 |-> Deg(d), v1 |-> 0]

\* the tuple (f, b)
Paired(f, b) == [none |-> FALSE, tuple |-> TRUE, v0 |-> Deg(f), v1 |-> Deg(b)]

\* the float h/2
Float(h) == [none |-> FALSE, tuple |-> FALSE, v0 |-> h, v1 |-> 0]

Abs(x) == IF x < 0 THEN -x ELSE x

\* LinePlot(angle_tol=2.0)
angle_tol == Deg(2)

NoName == "None"

NoPos == <<>>

InSeq(x, s) == \E i \in 1..Len(s) : s[i] = x

\* [shot['name'] for shot in lst]
NamesOf(h, lst) == [i \in 1..Len(lst) |-> h[lst[i]].name]

----------------------------------------------------------------------------
(* add_shot: the fore/backsight tolerance check *)

\* val_1: the backsight turned into the foresight it stands for
val_1(field, value) ==
    IF field = "inclination"
    THEN -value.v1
    ELSE (value.v1 + Deg(180)) % Deg(360)

\* abs(value[0]-val_1)
Disagreement(field, value) == Abs(value.v0 - val_1(field, value))

\* the WARNING printed for one field, if any
FieldWarning(shot_info, field) ==
    LET value == shot_info[field]
    IN  IF value.tuple /\ Disagreement(field, value) > angle_tol
        THEN << [field |-> field,
                 name |-> <<shot_info.from, shot_info.name>>,
                 magnitude |-> Disagreement(field, value)] >>
        ELSE << >>

ShotWarnings(shot_info) ==
    FieldWarning(shot_info, "azimuth") \o FieldWarning(shot_info, "inclination")

----------------------------------------------------------------------------
(* process: angle reduction and the position formulas *)

avg_azimuth(azi) ==
    IF azi.tuple
    THEN Float((azi.v0 + ((azi.v1 + Deg(180)) % Deg(360))) \div 2)
    ELSE azi

avg_inclination(incl) ==
    IF incl.tuple
    THEN Float((incl.v0 - incl.v1) \div 2)
    ELSE incl

Reduce(shot) ==
    [shot EXCEPT !.azimuth = avg_azimuth(shot.azimuth),
                 !.inclination = avg_inclination(shot.inclination)]

\* math.sin(a*2*np.pi/360), exact on the multiples of 90 degrees
Sin(a) ==
    CASE a % Deg(360) = Deg(0)   -> 0
      [] a % Deg(360) = Deg(90)  -> 1
      [] a % Deg(360) = Deg(180) -> 0
      [] a % Deg(360) = Deg(270) -> -1

\* math.cos(a*2*np.pi/360), exact on the multiples of 90 degrees
Cos(a) ==
    CASE a % Deg(360) = Deg(0)   -> 1
      [] a % Deg(360) = Deg(90)  -> 0
      [] a % Deg(360) = Deg(180) -> -1
      [] a % Deg(360) = Deg(270) -> 0

\* calc_pos raises TypeError (None * number) before it yields anything
calc_pos_raises(shot) ==
    shot.distance.none \/ shot.azimuth.none \/ shot.inclination.none

calc_pos(prevpos, shot) ==
    LET dist == shot.distance.v0
        azi  == shot.azimuth.v0
        incl == shot.inclination.v0
    IN  << prevpos[1] + dist * Cos(incl) * Sin(azi),
           prevpos[2] + dist * Cos(incl) * Cos(azi),
           prevpos[3] + dist * Sin(incl) >>

calc_pos_flat(prevflat, shot) ==
    LET dist == shot.distance.v0
        incl == shot.inclination.v0
    IN  << prevflat[1] + dist * Cos(incl),
           prevflat[2] + dist * Sin(incl) >>

\* a slip: the predecessor is taken to be the first resolved shot
FirstNamed_Mut(h, lst, name) == lst[1]

\* next(s for s in done if s['name']==name)
FirstNamed(h, lst, name) ==
    lst[CHOOSE i \in 1..Len(lst) :
            /\ h[lst[i]].name = name
            /\ \A j \in 1..(i-1) : h[lst[j]].name # name]

\* list.remove(x): drops the first element equal to x; dicts are equal when
\* they hold the same keys with equal values
ListRemove(h, lst, x) ==
    LET k == CHOOSE i \in 1..Len(lst) :
                 /\ h[lst[i]] = h[x]
                 /\ \A j \in 1..(i-1) : h[lst[j]] # h[x]
    IN  [i \in 1..(Len(lst)-1) |-> IF i < k THEN lst[i] ELSE lst[i+1]]

----------------------------------------------------------------------------
(* Inputs *)

\* what a parser yields when it raises ValueError
ValueError == [raised |-> "ValueError"]

\* float(string) raises ValueError unless the string is one number
float_raises(string) == Len(string) # 1

parse_float(string) ==
    IF string = << >>
    THEN Absent
    ELSE IF float_raises(string)
    THEN ValueError
    ELSE Scalar(string[1])

\* parse_float, or on its ValueError the tuple of the first two parts (the
\* parts of a cell are numbers here, so float() of a part does not raise)
parse_multi_float(string) ==
    IF parse_float(string) # ValueError
    THEN parse_float(string)
    ELSE Paired(string[1], string[2])

\* csv_to_shots.parse_row: the dict of one row of cells, without position
\* keys; the ValueError of a field is printed with the row and raised again
parse_row(row) ==
    IF parse_float(row.distance) = ValueError
    THEN ValueError
    ELSE [from |-> row.from, name |-> row.name, note |-> row.note,
          distance |-> parse_float(row.distance),
          azimuth |-> parse_multi_float(row.azimuth),
          inclination |-> parse_multi_float(row.inclination),
          left |-> parse_multi_float(row.left),
          right |-> parse_multi_float(row.right),
          up |-> parse_multi_float(row.up),
          down |-> parse_multi_float(row.down),
          position |-> NoPos, flat_position |-> NoPos]

Names == {"O", "A", "B", "C"}

AnyNames == {"O", "A", "B"}

DeepNames == {"O", "A"}

\* the cells of a row besides its two station names
Cells(distance, azimuth, inclination, left, note) ==
    [distance |-> distance, azimuth |-> azimuth, inclination |-> inclination,
     left |-> left, right |-> << >>, up |-> << >>, down |-> << >>,
     note |-> note]

Plain == Cells(<<1>>, <<0>>, <<0>>, << >>, "")

ForeAndBack == Cells(<<2>>, <<88, 272>>, <<0, 0>>, << >>, "")

BlankAzimuth == Cells(<<1>>, << >>, <<0>>, << >>, "")

BlankDistance == Cells(<< >>, <<0>>, <<0>>, << >>, "")

ZeroDistance == Cells(<<0>>, <<0>>, <<0>>, << >>, "")

Noted == Cells(<<1>>, <<0>>, <<0>>, << >>, "n")

Walled == Cells(<<1>>, <<0>>, <<0>>, <<1>>, "")

SplitDistance == Cells(<<1, 2>>, <<0>>, <<0>>, << >>, "")

\* the measurements of the rows offered to add_shot
Measures ==
    {Plain, ForeAndBack, BlankAzimuth, BlankDistance, ZeroDistance,
     SplitDistance}

\* those of DeepSpec: rows that differ in nothing process() reads
DeepMeasures == {Plain, Noted, Walled, ZeroDistance}

\* those of the lists AnySpec starts from
AnyMeasures == {Plain, ForeAndBack, BlankAzimuth}

\* those of the lists LoopSpec starts from
LoopMeasures == {Plain, BlankAzimuth}

Row(from, name, cells) ==
    [from |-> from, name |-> name, note |-> cells.note,
     distance |-> cells.distance, azimuth |-> cells.azimuth,
     inclination |-> cells.inclination, left |-> cells.left,
     right |-> cells.right, up |-> cells.up, down |-> cells.down]

\* the rows over stations N and measurements M
Rows(N, M) == { Row(f, n, m) : f \in N, n \in N, m \in M }

\* the dicts csv_to_shots makes of those rows; a row it raises on gives none
ShotInfos(N, M) == { parse_row(row) : row \in Rows(N, M) } \ {ValueError}

\* a dict that already has the two position keys when it is handed over
WithPosition(shot_info) ==
    [shot_info EXCEPT !.position = <<Deg(5), Deg(5), Deg(5)>>,
                      !.flat_position = <<Deg(5), Deg(5)>>]

\* the first record of a survey: the code only compares station names, so
\* the origin is called "O" and the first target is "O" itself or "A"
FirstShot(s) == s.from = "O" /\ s.name \in {"O", "A"}

\* the dicts of the rows of Spec
SurveyShots == ShotInfos(Names, Measures)

\* The records offered to add_shot
ShotInputs == { s \in SurveyShots : Len(shots) = 0 => FirstShot(s) }

\* the dicts of the rows of BuildSpec: the same measurements, three stations
BuildShots == ShotInfos(AnyNames, Measures)

\* The records offered to add_shot in BuildSpec
BuildInputs == { s \in BuildShots : Len(shots) = 0 => FirstShot(s) }

\* the dicts of DeepSpec: those of its rows, and dicts that were resolved before
DeepShots ==
    ShotInfos(DeepNames, DeepMeasures)
        \cup { WithPosition(t) : t \in ShotInfos(DeepNames, {Plain}) }

\* The records offered to add_shot in DeepSpec
DeepInputs == { s \in DeepShots : Len(shots) = 0 => FirstShot(s) }

\* integer-degree bearings
Bearings == 0..359

----------------------------------------------------------------------------
(* State machine *)

NoLocals ==
    /\ unfinished = << >>
    /\ done = << >>
    /\ looped_twice = FALSE
    /\ idx = 0
    /\ scan_start = << >>
    /\ done_start = << >>
    /\ examined = {}

DropLocals ==
    /\ unfinished' = << >>
    /\ done' = << >>
    /\ looped_twice' = FALSE
    /\ idx' = 0
    /\ scan_start' = << >>
    /\ done_start' = << >>
    /\ examined' = {}

NoAngle ==
    /\ a_pc = "none"
    /\ a_value = Paired(0, 0)
    /\ a_warning = << >>
    /\ a_azimuth = Paired(0, 0)

\* LinePlot.__init__
Init ==
    /\ heap = << >>
    /\ shots = << >>
    /\ shot_names = << >>
    /\ origin_name = NoName
    /\ result = <<"init", "ok">>
    /\ warnings = << >>
    /\ pc = "idle"
    /\ before = << >>
    /\ prior_ok = FALSE
    /\ NoLocals
    /\ NoAngle

\* a slip: assert shot_info['distance'] >= 0
DistanceOk_Mut(shot_info) == shot_info.distance.v0 >= 0

\* assert shot_info['from'] in self.shot_names, unless the network is empty
FromKnown(shot_info) == Len(shots) > 0 => InSeq(shot_info.from, shot_names)

\* assert shot_info['distance'] > 0, the distance being a number
DistanceOk(shot_info) == shot_info.distance.v0 > 0

\* how add_shot ends: its checks in the order the code makes them
Outcome(shot_info) ==
    IF ~FromKnown(shot_info) THEN "AssertionError"
    ELSE IF shot_info.distance.none THEN "TypeError"
    ELSE IF DistanceOk(shot_info) THEN "ok"
    ELSE "AssertionError"

add_shot(shot_info) ==
    /\ pc = "idle"
    /\ result' = <<"add_shot", Outcome(shot_info)>>
    /\ IF Outcome(shot_info) = "ok"
       THEN /\ shot_names' = Append(shot_names, shot_info.name)
            /\ shots' = Append(shots, Len(heap) + 1)
            /\ heap' = Append(heap, shot_info)
       ELSE UNCHANGED <<heap, shots, shot_names>>
    /\ warnings' = IF FromKnown(shot_info) THEN ShotWarnings(shot_info) ELSE << >>
    /\ before' = << >>
    /\ prior_ok' = FALSE
    /\ UNCHANGED <<origin_name, pc, unfinished, done, looped_twice, idx,
                   scan_start, done_start, examined>>
    /\ UNCHANGED anglevars

AddShot ==
    /\ Len(heap) < MaxShots
    /\ \E shot_info \in ShotInputs : add_shot(shot_info)

\* add_shot in BuildSpec
BuildAddShot ==
    /\ Len(heap) < MaxShots
    /\ \E shot_info \in BuildInputs : add_shot(shot_info)

\* add_shot in DeepSpec: longer surveys over fewer stations and geometries
DeepAddShot ==
    /\ Len(heap) < MaxDeep
    /\ \E shot_info \in DeepInputs : add_shot(shot_info)

\* the rows of Spec that parse_row raises on
UnreadRows == { row \in Rows(Names, Measures) : parse_row(row) = ValueError }

\* csv_to_shots meets a row it cannot parse and raises: the network is untouched
ParseRowRaise ==
    /\ pc = "idle"
    /\ UnreadRows # {}
    /\ result' = <<"parse_row", "ValueError">>
    /\ warnings' = << >>
    /\ before' = << >>
    /\ prior_ok' = FALSE
    /\ UNCHANGED <<heap, shots, shot_names, origin_name, pc,
                   unfinished, done, looped_twice, idx, scan_start,
                   done_start, examined>>
    /\ UNCHANGED anglevars

\* process() on an empty network: unfinished.pop(0) raises IndexError
ProcessEmpty ==
    /\ pc = "idle"
    /\ Len(shots) = 0
    /\ result' = <<"process", "IndexError">>
    /\ warnings' = << >>
    /\ before' = << >>
    /\ prior_ok' = FALSE
    /\ UNCHANGED <<heap, shots, shot_names, origin_name, pc,
                   unfinished, done, looped_twice, idx, scan_start,
                   done_start, examined>>
    /\ UNCHANGED anglevars

\* the heap after the angle reduction over self.shots
Reduced(h, lst) ==
    [i \in 1..Len(h) |-> IF InSeq(i, lst) THEN Reduce(h[i]) ELSE h[i]]

\* a slip: the first shot is placed from the position it already carries
FirstPlaced_Mut(h, first) ==
    [h EXCEPT ![first].position =
                  calc_pos(IF h[first].position = NoPos
                           THEN <<0, 0, 0>> ELSE h[first].position, h[first]),
              ![first].flat_position =
                  calc_pos_flat(IF h[first].flat_position = NoPos
                                THEN <<0, 0>> ELSE h[first].flat_position, h[first])]

\* the heap after process() has fixed the origin and placed the first shot
FirstPlaced(h, first) ==
    [h EXCEPT ![first].position = calc_pos(<<0, 0, 0>>, h[first]),
              ![first].flat_position = calc_pos_flat(<<0, 0>>, h[first])]

\* process() when calc_pos raises TypeError on the first shot (line 180): the
\* angles are reduced, nothing else has happened
ProcessBeginRaise ==
    /\ pc = "idle"
    /\ Len(shots) > 0
    /\ calc_pos_raises(Reduced(heap, shots)[shots[1]])
    /\ heap' = Reduced(heap, shots)
    /\ result' = <<"process", "TypeError">>
    /\ warnings' = << >>
    /\ before' = heap
    /\ prior_ok' = (result = <<"process", "ok">>)
    /\ UNCHANGED <<shots, shot_names, origin_name, pc, unfinished, done,
                   looped_twice, idx, scan_start, done_start, examined>>
    /\ UNCHANGED anglevars

\* process(), from its entry to the first test of the while loop
ProcessBegin ==
    /\ pc = "idle"
    /\ Len(shots) > 0
    /\ ~calc_pos_raises(Reduced(heap, shots)[shots[1]])
    /\ LET h1 == Reduced(heap, shots)
           first == shots[1]
       IN  /\ heap' = FirstPlaced(h1, first)
           /\ origin_name' = h1[first].from
           /\ unfinished' = Tail(shots)
           /\ done' = <<first>>
    /\ looped_twice' = FALSE
    /\ idx' = 0
    /\ scan_start' = << >>
    /\ done_start' = << >>
    /\ examined' = {}
    /\ before' = heap
    /\ prior_ok' = (result = <<"process", "ok">>)
    /\ pc' = "while"
    /\ result' = <<"process", "running">>
    /\ warnings' = << >>
    /\ UNCHANGED <<shots, shot_names>>
    /\ UNCHANGED anglevars

\* while len(unfinished) > 0: the for loop starts
ScanBegin ==
    /\ pc = "while"
    /\ Len(unfinished) > 0
    /\ idx' = 1
    /\ scan_start' = unfinished
    /\ done_start' = done
    /\ examined' = {}
    /\ pc' = "for"
    /\ UNCHANGED <<heap, shots, shot_names, origin_name, result, warnings,
                   unfinished, done, looped_twice, before, prior_ok>>
    /\ UNCHANGED anglevars

\* the heap after one shot has been given its positions
Placed(h, shot, prev) ==
    [h EXCEPT ![shot].position = calc_pos(h[prev].position, h[shot]),
              ![shot].flat_position = calc_pos_flat(h[prev].flat_position, h[shot])]

\* the shot the list iterator yields can be linked: its from is in done_names()
Linkable(shot) == InSeq(heap[shot].from, NamesOf(heap, done))

\* an iteration of `for shot in unfinished` in which calc_pos raises TypeError
\* (line 195): process() ends, self.shots is not reassigned
ForStepRaise ==
    /\ pc = "for"
    /\ idx <= Len(unfinished)
    /\ Linkable(unfinished[idx])
    /\ calc_pos_raises(heap[unfinished[idx]])
    /\ result' = <<"process", "TypeError">>
    /\ pc' = "idle"
    /\ DropLocals
    /\ UNCHANGED <<heap, shots, shot_names, origin_name, warnings, before,
                   prior_ok>>
    /\ UNCHANGED anglevars

\* one iteration of `for shot in unfinished`
ForStep ==
    /\ pc = "for"
    /\ idx <= Len(unfinished)
    /\ Linkable(unfinished[idx]) => ~calc_pos_raises(heap[unfinished[idx]])
    /\ LET shot == unfinished[idx]
       IN  /\ examined' = examined \cup {shot}
           /\ IF Linkable(shot)
              THEN LET prev == FirstNamed(heap, done, heap[shot].from)
                       h1 == Placed(heap, shot, prev)
                   IN  /\ heap' = h1
                       /\ done' = Append(done, shot)
                       /\ unfinished' = ListRemove(h1, unfinished, shot)
                       /\ looped_twice' = FALSE
              ELSE UNCHANGED <<heap, done, unfinished, looped_twice>>
    /\ idx' = idx + 1
    /\ UNCHANGED <<shots, shot_names, origin_name, result, warnings, pc,
                   scan_start, done_start, before, prior_ok>>
    /\ UNCHANGED anglevars

\* the for loop is exhausted and looped_twice is unset: set it, test the while again
ScanEnd ==
    /\ pc = "for"
    /\ idx > Len(unfinished)
    /\ ~looped_twice
    /\ looped_twice' = TRUE
    /\ pc' = "while"
    /\ UNCHANGED <<heap, shots, shot_names, origin_name, result, warnings,
                   unfinished, done, idx, scan_start, done_start, examined,
                   before, prior_ok>>
    /\ UNCHANGED anglevars

\* the for loop is exhausted and `if looped_twice` is taken
RaiseReady ==
    /\ pc = "for"
    /\ idx > Len(unfinished)
    /\ looped_twice

\* raise ValueError('Provided shots do not connect from origin')
ProcessRaise ==
    /\ RaiseReady
    /\ result' = <<"process", "ValueError">>
    /\ pc' = "idle"
    /\ DropLocals
    /\ UNCHANGED <<heap, shots, shot_names, origin_name, warnings, before,
                   prior_ok>>
    /\ UNCHANGED anglevars

\* the while loop ends: self.shots = done
ProcessReturn ==
    /\ pc = "while"
    /\ Len(unfinished) = 0
    /\ shots' = done
    /\ result' = <<"process", "ok">>
    /\ pc' = "idle"
    /\ DropLocals
    /\ UNCHANGED <<heap, shot_names, origin_name, warnings, before, prior_ok>>
    /\ UNCHANGED anglevars

\* networks built by add_shot, resolved by process() at any time
Next ==
    \/ ParseRowRaise
    \/ AddShot
    \/ ProcessEmpty
    \/ ProcessBeginRaise
    \/ ProcessBegin
    \/ ScanBegin
    \/ ForStepRaise
    \/ ForStep
    \/ ScanEnd
    \/ ProcessReturn

Spec == Init /\ [][Next]_vars

\* the same program on surveys over the three stations of AnyNames
NextBuild ==
    \/ BuildAddShot
    \/ ProcessEmpty
    \/ ProcessBeginRaise
    \/ ProcessBegin
    \/ ScanBegin
    \/ ForStepRaise
    \/ ForStep
    \/ ScanEnd
    \/ ProcessReturn

BuildSpec == Init /\ [][NextBuild]_vars

\* the same program on surveys of up to MaxDeep shots over DeepNames, whose
\* rows have every measurement process() reads
NextDeep ==
    \/ DeepAddShot
    \/ ProcessEmpty
    \/ ProcessBegin
    \/ ScanBegin
    \/ ForStep
    \/ ScanEnd
    \/ ProcessReturn

DeepSpec == Init /\ [][NextDeep]_vars

----------------------------------------------------------------------------
(* Shot lists that were not built by add_shot *)

\* the lists of n dicts over AnyNames
AnyHeaps(n, M) ==
    { h \in [1..n -> ShotInfos(AnyNames, M)] : FirstShot(h[1]) }

\* a LinePlot whose shots attribute was assigned a list directly
InitAny ==
    /\ \E n \in 1..MaxAny :
          /\ heap \in AnyHeaps(n, AnyMeasures)
          /\ shots = [i \in 1..n |-> i]
    /\ shot_names = << >>
    /\ origin_name = NoName
    /\ result = <<"init", "ok">>
    /\ warnings = << >>
    /\ pc = "idle"
    /\ before = << >>
    /\ prior_ok = FALSE
    /\ NoLocals
    /\ NoAngle

NextAny ==
    \/ ProcessBeginRaise
    \/ ProcessBegin
    \/ ScanBegin
    \/ ForStepRaise
    \/ ForStep
    \/ ScanEnd
    \/ ProcessRaise
    \/ ProcessReturn

AnySpec == InitAny /\ [][NextAny]_vars

\* The loop of process() reads from and name, and fails on a None: the lists
\* whose rows are Plain or have a blank azimuth
InitLoop ==
    /\ \E n \in 1..MaxAny :
          /\ heap \in AnyHeaps(n, LoopMeasures)
          /\ shots = [i \in 1..n |-> i]
    /\ shot_names = << >>
    /\ origin_name = NoName
    /\ result = <<"init", "ok">>
    /\ warnings = << >>
    /\ pc = "idle"
    /\ before = << >>
    /\ prior_ok = FALSE
    /\ NoLocals
    /\ NoAngle

\* process() is sequential code: once entered it runs on to its return or raise
LoopSpec == InitLoop /\ [][NextAny]_vars /\ WF_vars(NextAny)

----------------------------------------------------------------------------
(* The azimuth arithmetic on every pair of integer bearings *)

InitAngle ==
    /\ heap = << >>
    /\ shots = << >>
    /\ shot_names = << >>
    /\ origin_name = NoName
    /\ result = <<"init", "ok">>
    /\ warnings = << >>
    /\ pc = "idle"
    /\ before = << >>
    /\ prior_ok = FALSE
    /\ NoLocals
    /\ a_pc = "input"
    /\ \E f \in Bearings, b \in Bearings : a_value = Paired(f, b)
    /\ a_warning = << >>
    /\ a_azimuth = a_value

\* add_shot's tolerance check of the azimuth field (lines 126-135)
CheckPair ==
    /\ a_pc = "input"
    /\ a_warning' = FieldWarning(
           [parse_row(Row("O", "A", Plain)) EXCEPT !.azimuth = a_value],
           "azimuth")
    /\ a_pc' = "checked"
    /\ UNCHANGED <<a_value, a_azimuth>>
    /\ UNCHANGED netvars

\* process()'s reduction of the azimuth field (lines 167-169)
ReducePair ==
    /\ a_pc = "checked"
    /\ a_azimuth' = avg_azimuth(a_value)
    /\ a_pc' = "reduced"
    /\ UNCHANGED <<a_value, a_warning>>
    /\ UNCHANGED netvars

NextAngle ==
    \/ CheckPair
    \/ ReducePair

AngleSpec == InitAngle /\ [][NextAngle]_vars

----------------------------------------------------------------------------
(* Vocabulary of the claims *)

\* the positions of 1..Len(lst)
Idx(lst) == 1..Len(lst)

\* s1 and s2 hold the same values, each as often
SameBag(s1, s2) ==
    /\ Len(s1) = Len(s2)
    /\ \A v \in { s1[i] : i \in Idx(s1) } :
          Cardinality({ i \in Idx(s1) : s1[i] = v })
            = Cardinality({ i \in Idx(s2) : s2[i] = v })

\* the last call was process() and it returned
ProcessOk == pc = "idle" /\ result = <<"process", "ok">>

\* the last call was process() and it raised ValueError
ProcessFailed == pc = "idle" /\ result = <<"process", "ValueError">>

\* the origin station of the stored list
Origin == heap[shots[1]].from

\* the stations: the origin and every shot's target
Stations == {Origin} \cup { heap[shots[i]].name : i \in Idx(shots) }

\* the positions the network holds for station n
PositionsOf(n) ==
    { heap[shots[i]].position : i \in { j \in Idx(shots) : heap[shots[j]].name = n } }
      \cup (IF n = Origin THEN { <<0, 0, 0>> } ELSE {})

\* one position per station, the origin at (0,0,0), every shot's position its
\* from station's position plus the shot's displacement
OnePositionEach ==
    /\ \A n \in Stations : Cardinality(PositionsOf(n)) = 1
    /\ PositionsOf(Origin) = { <<0, 0, 0>> }
    /\ \A i \in Idx(shots) :
          /\ heap[shots[i]].position # NoPos
          /\ \A p \in PositionsOf(heap[shots[i]].from) :
                heap[shots[i]].position = calc_pos(p, heap[shots[i]])

\* no two shots lead to the same station
DistinctTargets ==
    \A i, j \in Idx(shots) :
        i # j => heap[shots[i]].name # heap[shots[j]].name

\* no two shots lead to the same station and none leads back to the origin
DistinctStations ==
    /\ DistinctTargets
    /\ \A i \in Idx(shots) : heap[shots[i]].name # Origin

\* the stations reachable from the origin along shots, from -> name
RECURSIVE ReachFrom(_)
ReachFrom(S) ==
    LET T == S \cup { heap[shots[i]].name :
                         i \in { j \in Idx(shots) : heap[shots[j]].from \in S } }
    IN  IF T = S THEN S ELSE ReachFrom(T)

Reachable == ReachFrom({Origin})

\* the circular mean of bearings x and y (half degrees): the bisector of the
\* shorter arc between them; FALSE for no candidate when they are opposite
IsCircularMean(m, x, y) ==
    LET lo == IF x < y THEN x ELSE y
        hi == IF x < y THEN y ELSE x
    IN  IF hi - lo < Deg(180)
        THEN 2 * m = lo + hi
        ELSE IF hi - lo > Deg(180)
        THEN 2 * (m % Deg(360)) = (lo + hi + Deg(360)) % Deg(720)
        ELSE 2 * m = lo + hi \/ 2 * (m % Deg(360)) = (lo + hi + Deg(360)) % Deg(720)

----------------------------------------------------------------------------
(* Claims *)

\* C1: add_shot(record) succeeds exactly when record.distance > 0 and the
\* network is empty or record.from is the name of a shot it holds; on success
\* the record is appended to shots and its name to shot_names; on failure an
\* exception is raised (AssertionError, or TypeError when the from station is
\* known and the distance is None) and neither changes.
C1_AddShotContract ==
    [][ (pc = "idle" /\ pc' = "idle" /\ result'[1] = "add_shot") =>
          \A s \in BuildShots :
              add_shot(s) =>
                LET known ==
                      \/ Len(shots) = 0
                      \/ \E i \in Idx(shots) : heap[shots[i]].name = s.from
                    accepted ==
                      /\ ~s.distance.none
                      /\ s.distance.v0 > 0
                      /\ known
                IN  /\ (result' = <<"add_shot", "ok">>) <=> accepted
                    /\ accepted =>
                          /\ Len(shots') = Len(shots) + 1
                          /\ \A i \in Idx(shots) : shots'[i] = shots[i]
                          /\ heap'[shots'[Len(shots')]] = s
                          /\ \A i \in 1..Len(heap) : heap'[i] = heap[i]
                          /\ shot_names' = Append(shot_names, s.name)
                    /\ ~accepted =>
                          /\ result'[2] \in {"AssertionError", "TypeError"}
                          /\ (result'[2] = "TypeError")
                                <=> (known /\ s.distance.none)
                          /\ UNCHANGED <<heap, shots, shot_names>>
      ]_vars

\* C1 witness: add_shot has refused a record on a network that was resolved
C1_Witness ==
    /\ pc = "idle"
    /\ result = <<"add_shot", "AssertionError">>
    /\ Len(shots) = 2
    /\ heap[shots[2]].position # NoPos

\* C2 as stated: after a successful process() on any network add_shot
\* accepted, every station has exactly one position, the origin (0,0,0),
\* every other its predecessor's position plus the shot's displacement.
C2_Original == ProcessOk => OnePositionEach

\* C2 amended: the same, for networks in which no two shots lead to the same
\* station and no shot leads back to the origin.
C2_OnePositionPerStation == (ProcessOk /\ DistinctStations) => OnePositionEach

\* C2 witness: a resolved three-shot tree with a branch at one station
C2_Witness ==
    /\ ProcessOk
    /\ DistinctStations
    /\ Len(shots) = 3
    /\ heap[shots[2]].from = heap[shots[3]].from
    /\ heap[shots[2]].distance # heap[shots[3]].distance

\* C3: after process() raised, no shot of the network carries a position or
\* a flat_position.
C3_NoPartialGeometry ==
    ProcessFailed =>
        \A i \in Idx(shots) :
            /\ heap[shots[i]].position = NoPos
            /\ heap[shots[i]].flat_position = NoPos

\* C4: process() raises ValueError exactly when some shot's from station is
\* not reachable from the origin shots[0].from; when every from station is
\* reachable, process() returns and every shot is resolved.
C4_RaisesIffUnreachable ==
    (pc = "idle" /\ result[1] = "process") =>
        LET cut_off == \E i \in Idx(shots) : heap[shots[i]].from \notin Reachable
        IN  /\ (result[2] = "ValueError") <=> cut_off
            /\ ~cut_off =>
                  /\ result[2] = "ok"
                  /\ \A i \in Idx(shots) : heap[shots[i]].position # NoPos

\* C5: process() replaces a Paired azimuth (fore, back) by the circular mean
\* of fore and (back + 180) mod 360.
C5_CircularMean ==
    a_pc = "reduced" =>
        /\ ~a_azimuth.tuple
        /\ IsCircularMean(a_azimuth.v0, a_value.v0,
                          (a_value.v1 + Deg(180)) % Deg(360))

\* C6: add_shot warns about a Paired azimuth (fore, back) exactly when
\* |((fore + 180) mod 360) - back| exceeds angle_tol, and reports that value.
C6_BacksightWarning ==
    a_pc = "checked" =>
        LET expected == (a_value.v0 + Deg(180)) % Deg(360)
            diff == Abs(expected - a_value.v1)
        IN  /\ (Len(a_warning) = 1) <=> (diff > angle_tol)
            /\ Len(a_warning) = 1 => a_warning[1].magnitude = diff

\* C7: a second process() on a network with distinct station names that
\* process() has resolved returns and leaves every shot its position and
\* flat_position.
C7_SecondProcessSame ==
    (pc = "idle" /\ result[1] = "process" /\ prior_ok /\ DistinctTargets) =>
        /\ result[2] = "ok"
        /\ \A i \in Idx(shots) :
              /\ before[shots[i]].position # NoPos
              /\ heap[shots[i]].position = before[shots[i]].position
              /\ heap[shots[i]].flat_position = before[shots[i]].flat_position

\* C7 witness: a second process() has returned on a three-shot network that
\* the first one had to reorder
C7_Witness ==
    /\ ProcessOk
    /\ prior_ok
    /\ DistinctTargets
    /\ Len(shots) = 3
    /\ shots # <<1, 2, 3>>

\* C8: the propagation loop ends; it ends by return with unfinished empty or
\* by raising ValueError, and it raises only after a complete scan of
\* unfinished that resolved nothing.
C8_LoopTerminates ==
    /\ [](RaiseReady =>
            /\ Len(unfinished) > 0
            /\ unfinished = scan_start
            /\ done = done_start
            /\ \A k \in Idx(scan_start) : scan_start[k] \in examined)
    /\ [][ (pc # "idle" /\ pc' = "idle") =>
             \/ result'[2] = "ok" /\ Len(unfinished) = 0
             \/ result'[2] = "ValueError" /\ RaiseReady
       ]_vars
    /\ ((pc # "idle") ~> (pc = "idle"))

\* C9: at the end of a scan every shot that was in unfinished when the scan
\* started has been examined, and those whose from station was in done at
\* that time are in done.
C9_FullScan ==
    (pc = "for" /\ idx > Len(unfinished)) =>
        \A k \in Idx(scan_start) :
            /\ scan_start[k] \in examined
            /\ InSeq(heap[scan_start[k]].from, NamesOf(heap, done_start))
                 => InSeq(scan_start[k], done)

\* C10: on a network built by add_shot, process() never raises ValueError,
\* and on return self.shots is a permutation of the shot objects it held
\* before the call (none dropped, none held twice) with the same first shot,
\* and shot_names holds the names of the shots.
C10_ProcessKeepsShots ==
    /\ [](~RaiseReady)
    /\ [][ (pc # "idle" /\ pc' = "idle" /\ result'[2] = "ok") =>
             /\ shots'[1] = shots[1]
             /\ SameBag(shots', shots)
             /\ SameBag(shot_names', NamesOf(heap', shots'))
       ]_vars

====
